---- MODULE Spec2Model ----
(***************************************************************************)
(* Voter registration transaction lifecycle                                *)
(* (electos/vanadium/app/routes/voter_registration.py).                    *)
(*                                                                         *)
(* Four route handlers (create, status, update, cancel) each make one call *)
(* to the storage resource and build a VoterRecordsResponse from the value *)
(* the storage returns.  The storage resource itself                       *)
(* (vanadium.app.resources.storage) is not part of the sources at hand; it *)
(* is modelled from the storage contract of the specification (section     *)
(* 4.1) and returns Python values the way the handlers consume them.       *)
(***************************************************************************)
EXTENDS Naturals, Sequences, FiniteSets, TLC

\* ------------------------------------------------------------------ bounds

\* Number of distinct non-empty transaction identifiers in the model: those
\* a client can name in a request and those the generator can yield.  It
\* bounds the number of records the storage holds under non-empty identifiers.
NumIds == 3

\* Number of concurrent requests in the concurrent specification.
NumRequests == 2

\* Number of distinct non-empty identifiers the concurrent requests use.
NumConcIds == 1

\* ------------------------------------------------------------ Python values

\* Python values are tagged with their type, so that None, strings and
\* request objects can be compared with each other.
None == [type |-> "NoneType"]

Str(s) == [type |-> "str", val |-> s]

IdPool == <<"a", "b", "c", "d", "e", "f", "g", "h">>

\* Non-empty identifiers: what a client can name in the URL path segment
\* {transaction_id} and in the TransactionId field of a request body, whether
\* it chose the identifier or was handed it by an earlier Create, and what
\* the identifier generator yields.
NamedIds == {Str(IdPool[i]) : i \in 1..NumIds}

\* Identifiers a client can put in the TransactionId field of a request body:
\* any string, the empty string included.
Ids == NamedIds \cup {Str("")}

\* VoterRecordsRequest: the TransactionId field is optional; the remaining
\* fields are carried through unchanged and no handler reads them: they are
\* abstracted to one number, which the concurrent specification uses to tell
\* the records of its requests apart.
Items == [type : {"VoterRecordsRequest"}, transaction_id : Ids \cup {None},
          data : {0}]

\* Python truthiness of the values the handlers test with `if`: None and the
\* empty string are falsy; non-empty strings and model objects are truthy.
Truthy(v) ==
    IF v.type = "NoneType" THEN FALSE
    ELSE IF v.type = "str" THEN v.val # ""
    ELSE TRUE

\* ------------------------------------------------------------------ storage
\* The storage is a mapping from identifiers in use to the stored items.

EmptyStorage == [k \in {} |-> None]

Put(s, key, value) == [k \in (DOMAIN s) \cup {key} |-> IF k = key THEN value ELSE s[k]]

Drop(s, key) == [k \in (DOMAIN s) \ {key} |-> s[k]]

\* Identifiers the generator can hand out for storage s: any non-empty
\* identifier not in use.
FreshIds(s) == NamedIds \ DOMAIN s

\* Every storage operation yields the mapping after it, the Python value it
\* returns and the trace of storage calls made (its own name).

\* insert(key, value): key None -> store under the fresh identifier and
\* return it; key in use -> conflict, return None; else store under key and
\* return key.
insert(s, key, value, fresh) ==
    IF key = None
    THEN [storage |-> Put(s, fresh, value), value |-> fresh,
          calls |-> <<"insert">>]
    ELSE IF key \in DOMAIN s
         THEN [storage |-> s, value |-> None,
               calls |-> <<"insert">>]
         ELSE [storage |-> Put(s, key, value), value |-> key,
               calls |-> <<"insert">>]

\* lookup(key): the stored item, or None.
lookup(s, key) ==
    IF key \in DOMAIN s
    THEN [storage |-> s, value |-> s[key],
          calls |-> <<"lookup">>]
    ELSE [storage |-> s, value |-> None,
          calls |-> <<"lookup">>]

\* update(key, value): replace the item of a key in use and return it; else
\* None.  Never creates.
update(s, key, value) ==
    IF key \in DOMAIN s
    THEN [storage |-> Put(s, key, value), value |-> value,
          calls |-> <<"update">>]
    ELSE [storage |-> s, value |-> None,
          calls |-> <<"update">>]

\* remove(key): delete the item of a key in use and return it; else None.
remove(s, key) ==
    IF key \in DOMAIN s
    THEN [storage |-> Drop(s, key), value |-> s[key],
          calls |-> <<"remove">>]
    ELSE [storage |-> s, value |-> None,
          calls |-> <<"remove">>]

\* ---------------------------------------------------------------- responses

REGISTRATION_CREATED == "registration-created"
REGISTRATION_UPDATED == "registration-updated"
REGISTRATION_CANCELLED == "registration-cancelled"
IDENTITY_LOOKUP_FAILED == "identity-lookup-failed"

ALREADY_EXISTS == "Voter registration request already exists."
NOT_FOUND == "Voter registration request not found."

HTTP_200_OK == 200
HTTP_201_CREATED == 201
HTTP_400_BAD_REQUEST == 400
HTTP_404_NOT_FOUND == 404

RequestSuccess(action, transaction_id) ==
    [kind |-> "RequestSuccess", Action |-> <<action>>, Error |-> <<>>,
     AdditionalDetails |-> <<>>, TransactionId |-> transaction_id]

RequestRejection(details, error, transaction_id) ==
    [kind |-> "RequestRejection", Action |-> <<>>, Error |-> <<error>>,
     AdditionalDetails |-> <<details>>, TransactionId |-> transaction_id]

RequestAcknowledgement(transaction_id) ==
    [kind |-> "RequestAcknowledgement", Action |-> <<>>, Error |-> <<>>,
     AdditionalDetails |-> <<>>, TransactionId |-> transaction_id]

\* ----------------------------------------------------------------- handlers
\* Each handler is split into its storage call and the response it builds
\* from the returned value.  A result is [response, status_code].

\* POST /voter/registration/ : the storage call.
MutRequestStoreUpdate(s, item, fresh) ==
    IF item.transaction_id \in DOMAIN s
    THEN [storage |-> Put(s, item.transaction_id, item),
          value |-> item.transaction_id, calls |-> <<"insert">>]
    ELSE insert(s, item.transaction_id, item, fresh)

MutRequestStoreRetry(s, item, fresh) ==
    LET first == insert(s, item.transaction_id, item, fresh)
        second == insert(first.storage, item.transaction_id, item, fresh)
    IN  IF Truthy(first.value)
        THEN first
        ELSE [storage |-> second.storage, value |-> second.value,
              calls |-> first.calls \o second.calls]

request_store(s, item, fresh) == insert(s, item.transaction_id, item, fresh)

\* POST /voter/registration/ : the response.
MutRequestResultEcho(registration_id, item) ==
    IF Truthy(registration_id)
    THEN [response |-> RequestSuccess(REGISTRATION_CREATED, registration_id),
          status_code |-> HTTP_201_CREATED]
    ELSE [response |-> RequestRejection(ALREADY_EXISTS, IDENTITY_LOOKUP_FAILED,
                                        item.transaction_id),
          status_code |-> HTTP_400_BAD_REQUEST]

MutRequestResultItemId(registration_id, item) ==
    IF Truthy(registration_id)
    THEN [response |-> RequestSuccess(REGISTRATION_CREATED, item.transaction_id),
          status_code |-> HTTP_201_CREATED]
    ELSE [response |-> RequestRejection(ALREADY_EXISTS, IDENTITY_LOOKUP_FAILED,
                                        registration_id),
          status_code |-> HTTP_400_BAD_REQUEST]

request_result(registration_id, item) ==
    IF Truthy(registration_id)
    THEN [response |-> RequestSuccess(REGISTRATION_CREATED, registration_id),
          status_code |-> HTTP_201_CREATED]
    ELSE [response |-> RequestRejection(ALREADY_EXISTS, IDENTITY_LOOKUP_FAILED,
                                        registration_id),
          status_code |-> HTTP_400_BAD_REQUEST]

\* GET /voter/registration/{transaction_id} : the storage call.
MutStatusStoreRemove(s, transaction_id) == remove(s, transaction_id)

status_store(s, transaction_id) == lookup(s, transaction_id)

\* GET /voter/registration/{transaction_id} : the response.  The status code
\* is only set on the rejection path; the route's default is 200.
MutStatusResultInverted(value, transaction_id) ==
    IF ~Truthy(value)
    THEN [response |-> RequestAcknowledgement(transaction_id),
          status_code |-> HTTP_200_OK]
    ELSE [response |-> RequestRejection(NOT_FOUND, IDENTITY_LOOKUP_FAILED,
                                        transaction_id),
          status_code |-> HTTP_404_NOT_FOUND]

MutStatusResultNoElse(value, transaction_id) ==
    IF Truthy(value)
    THEN [response |-> RequestAcknowledgement(transaction_id),
          status_code |-> HTTP_200_OK]
    ELSE [response |-> [kind |-> "none", Action |-> <<>>, Error |-> <<>>,
                        AdditionalDetails |-> <<>>, TransactionId |-> value],
          status_code |-> HTTP_200_OK]

status_result(value, transaction_id) ==
    IF Truthy(value)
    THEN [response |-> RequestAcknowledgement(transaction_id),
          status_code |-> HTTP_200_OK]
    ELSE [response |-> RequestRejection(NOT_FOUND, IDENTITY_LOOKUP_FAILED,
                                        transaction_id),
          status_code |-> HTTP_404_NOT_FOUND]

\* PUT /voter/registration/{transaction_id} : the storage call.
MutUpdateStoreUpsert(s, transaction_id, item) ==
    [storage |-> Put(s, transaction_id, item), value |-> item,
     calls |-> <<"update">>]

MutUpdateStoreItemKey(s, transaction_id, item) ==
    update(s, item.transaction_id, item)

update_store(s, transaction_id, item) == update(s, transaction_id, item)

\* PUT /voter/registration/{transaction_id} : the response.
MutUpdateResultNoId(value, transaction_id) ==
    IF Truthy(value)
    THEN [response |-> RequestSuccess(REGISTRATION_UPDATED, transaction_id),
          status_code |-> HTTP_200_OK]
    ELSE [response |-> RequestRejection(NOT_FOUND, IDENTITY_LOOKUP_FAILED, value),
          status_code |-> HTTP_404_NOT_FOUND]

update_result(value, transaction_id) ==
    IF Truthy(value)
    THEN [response |-> RequestSuccess(REGISTRATION_UPDATED, transaction_id),
          status_code |-> HTTP_200_OK]
    ELSE [response |-> RequestRejection(NOT_FOUND, IDENTITY_LOOKUP_FAILED,
                                        transaction_id),
          status_code |-> HTTP_404_NOT_FOUND]

\* DELETE /voter/registration/{transaction_id} : the storage call.
MutCancelStoreLookup(s, transaction_id) == lookup(s, transaction_id)

cancel_store(s, transaction_id) == remove(s, transaction_id)

\* DELETE /voter/registration/{transaction_id} : the response.
MutCancelResultAlwaysSuccess(value, transaction_id) ==
    [response |-> RequestSuccess(REGISTRATION_CANCELLED, transaction_id),
     status_code |-> HTTP_200_OK]

MutCancelResultNo404(value, transaction_id) ==
    IF Truthy(value)
    THEN [response |-> RequestSuccess(REGISTRATION_CANCELLED, transaction_id),
          status_code |-> HTTP_200_OK]
    ELSE [response |-> RequestRejection(NOT_FOUND, IDENTITY_LOOKUP_FAILED,
                                        transaction_id),
          status_code |-> HTTP_200_OK]

cancel_result(value, transaction_id) ==
    IF Truthy(value)
    THEN [response |-> RequestSuccess(REGISTRATION_CANCELLED, transaction_id),
          status_code |-> HTTP_200_OK]
    ELSE [response |-> RequestRejection(NOT_FOUND, IDENTITY_LOOKUP_FAILED,
                                        transaction_id),
          status_code |-> HTTP_404_NOT_FOUND]

\* The whole handlers: [storage, response, status_code, calls], calls being
\* the storage calls the handler made, in order.
voter_registration_request(s, item, fresh) ==
    LET r == request_store(s, item, fresh)
        out == request_result(r.value, item)
    IN  [storage |-> r.storage, response |-> out.response,
         status_code |-> out.status_code, calls |-> r.calls]

voter_registration_status(s, transaction_id) ==
    LET r == status_store(s, transaction_id)
        out == status_result(r.value, transaction_id)
    IN  [storage |-> r.storage, response |-> out.response,
         status_code |-> out.status_code, calls |-> r.calls]

voter_registration_update(s, transaction_id, item) ==
    LET r == update_store(s, transaction_id, item)
        out == update_result(r.value, transaction_id)
    IN  [storage |-> r.storage, response |-> out.response,
         status_code |-> out.status_code, calls |-> r.calls]

voter_registration_cancel(s, transaction_id) ==
    LET r == cancel_store(s, transaction_id)
        out == cancel_result(r.value, transaction_id)
    IN  [storage |-> r.storage, response |-> out.response,
         status_code |-> out.status_code, calls |-> r.calls]

\* -------------------------------------------------------------------- state

VARIABLES
    storage,      \* the storage resource shared by all requests
    call,         \* sequential: the last request served
    response,     \* sequential: the response to the last request
    status_code,  \* sequential: the HTTP status code of the last response
    requests      \* concurrent: per request, its position and locals

vars == <<storage, call, response, status_code, requests>>

seqVars == <<call, response, status_code>>

NoCall == [op |-> "none", transaction_id |-> None, item |-> None]

NoResponse == [kind |-> "none", Action |-> <<>>, Error |-> <<>>,
               AdditionalDetails |-> <<>>, TransactionId |-> None]

NoRequest == [pc |-> "idle", op |-> "none", transaction_id |-> None,
              item |-> None, value |-> None, response |-> NoResponse,
              status_code |-> 0]

Requests == 1..NumRequests

\* The identifier generator yields an identifier not in use; a request that
\* supplies its identifier does not use the generator.  The storage grows
\* without limit in the program; the model holds at most NumIds records under
\* non-empty identifiers, so a request without identifier is served while
\* fewer than NumIds of them are live.
FreshChoices(s, item) ==
    IF item.transaction_id = None THEN FreshIds(s) ELSE {None}

\* --------------------------------------------- sequential specification Spec
\* Requests are served one at a time, each handler run as one step.

Init ==
    /\ storage = EmptyStorage
    /\ call = NoCall
    /\ response = NoResponse
    /\ status_code = 0
    /\ requests = [r \in Requests |-> NoRequest]

Create(item) ==
    \E fresh \in FreshChoices(storage, item) :
        \E out \in {voter_registration_request(storage, item, fresh)} :
            /\ storage' = out.storage
            /\ call' = [op |-> "create", transaction_id |-> item.transaction_id,
                        item |-> item]
            /\ response' = out.response
            /\ status_code' = out.status_code
            /\ UNCHANGED requests

Status(transaction_id) ==
    \E out \in {voter_registration_status(storage, transaction_id)} :
        /\ storage' = out.storage
        /\ call' = [op |-> "status", transaction_id |-> transaction_id,
                    item |-> None]
        /\ response' = out.response
        /\ status_code' = out.status_code
        /\ UNCHANGED requests

Update(transaction_id, item) ==
    \E out \in {voter_registration_update(storage, transaction_id, item)} :
        /\ storage' = out.storage
        /\ call' = [op |-> "update", transaction_id |-> transaction_id,
                    item |-> item]
        /\ response' = out.response
        /\ status_code' = out.status_code
        /\ UNCHANGED requests

Cancel(transaction_id) ==
    \E out \in {voter_registration_cancel(storage, transaction_id)} :
        /\ storage' = out.storage
        /\ call' = [op |-> "cancel", transaction_id |-> transaction_id,
                    item |-> None]
        /\ response' = out.response
        /\ status_code' = out.status_code
        /\ UNCHANGED requests

Next ==
    \/ \E item \in Items : Create(item)
    \/ \E transaction_id \in NamedIds : Status(transaction_id)
    \/ \E transaction_id \in NamedIds, item \in Items : Update(transaction_id, item)
    \/ \E transaction_id \in NamedIds : Cancel(transaction_id)

Spec == Init /\ [][Next]_vars

\* ------------------------------------------ concurrent specification SpecConc
\* The handlers are plain `def` routes, which the framework runs on worker
\* threads: requests overlap.  A request first makes its storage call (one
\* atomic step, the storage contract of specification section 5) and later
\* builds and returns its response from the value it got.  Each request r
\* carries its own payload r; records stored before the requests start carry
\* payload 0.

ConcIds == {Str(IdPool[i]) : i \in 1..NumConcIds}

\* Identifiers the generator can yield to the concurrent requests: one for
\* each request on top of those that can be in use, so it is never exhausted.
ConcGenIds == {Str(IdPool[i]) : i \in 1..(NumConcIds + NumRequests)}

ConcFreshChoices(s, item) ==
    IF item.transaction_id = None THEN ConcGenIds \ DOMAIN s ELSE {None}

\* Identifiers a concurrent Create can supply in the request body.
ConcBodyIds == ConcIds \cup {Str(""), None}

PriorItem(id) == [type |-> "VoterRecordsRequest", transaction_id |-> id, data |-> 0]

\* Storages left behind by earlier Create calls that supplied the identifier.
PriorStorages == {[k \in D |-> PriorItem(k)] : D \in SUBSET (ConcIds \cup {Str("")})}

ConcItem(r, id) == [type |-> "VoterRecordsRequest", transaction_id |-> id, data |-> r]

InitConc ==
    /\ storage \in PriorStorages
    /\ call = NoCall
    /\ response = NoResponse
    /\ status_code = 0
    /\ requests = [r \in Requests |-> NoRequest]

Started(r, op, transaction_id, item, value) ==
    requests' = [requests EXCEPT ![r] =
                    [pc |-> "stored", op |-> op, transaction_id |-> transaction_id,
                     item |-> item, value |-> value,
                     response |-> NoResponse, status_code |-> 0]]

CreateCall(r, item) ==
    /\ requests[r].pc = "idle"
    /\ \E fresh \in ConcFreshChoices(storage, item) :
        LET got == request_store(storage, item, fresh)
        IN  /\ storage' = got.storage
            /\ Started(r, "create", item.transaction_id, item, got.value)
    /\ UNCHANGED seqVars

StatusCall(r, transaction_id) ==
    /\ requests[r].pc = "idle"
    /\ LET got == status_store(storage, transaction_id)
       IN  /\ storage' = got.storage
           /\ Started(r, "status", transaction_id, None, got.value)
    /\ UNCHANGED seqVars

UpdateCall(r, transaction_id, item) ==
    /\ requests[r].pc = "idle"
    /\ LET got == update_store(storage, transaction_id, item)
       IN  /\ storage' = got.storage
           /\ Started(r, "update", transaction_id, item, got.value)
    /\ UNCHANGED seqVars

CancelCall(r, transaction_id) ==
    /\ requests[r].pc = "idle"
    /\ LET got == cancel_store(storage, transaction_id)
       IN  /\ storage' = got.storage
           /\ Started(r, "cancel", transaction_id, None, got.value)
    /\ UNCHANGED seqVars

\* The response a request builds from the value its storage call returned.
ResultOf(q) ==
    CASE q.op = "create" -> request_result(q.value, q.item)
      [] q.op = "status" -> status_result(q.value, q.transaction_id)
      [] q.op = "update" -> update_result(q.value, q.transaction_id)
      [] q.op = "cancel" -> cancel_result(q.value, q.transaction_id)

Return(r) ==
    /\ requests[r].pc = "stored"
    /\ LET out == ResultOf(requests[r])
       IN  requests' = [requests EXCEPT ![r].pc = "returned",
                                        ![r].response = out.response,
                                        ![r].status_code = out.status_code]
    /\ UNCHANGED <<storage, seqVars>>

NextConc ==
    \/ \E r \in Requests, id \in ConcBodyIds : CreateCall(r, ConcItem(r, id))
    \/ \E r \in Requests, id \in ConcIds : StatusCall(r, id)
    \/ \E r \in Requests, id \in ConcIds : UpdateCall(r, id, ConcItem(r, id))
    \/ \E r \in Requests, id \in ConcIds : CancelCall(r, id)
    \/ \E r \in Requests : Return(r)

SpecConc == InitConc /\ [][NextConc]_vars

\* ------------------------------------------------------------------ claims

Live(s) == DOMAIN s

IsRejection(resp) == resp.kind = "RequestRejection"

IsSuccess(resp, action) == resp.kind = "RequestSuccess" /\ resp.Action = <<action>>

\* C1: a Create that supplies an identifier currently live is answered with a
\* Rejection and leaves the storage, and so the record under that identifier,
\* exactly as it was; the identifier keeps its single record.
C1_CreateLiveIdRejected ==
    [][(call'.op = "create" /\ call'.transaction_id \in Live(storage))
        => (/\ IsRejection(response')
            /\ Live(storage') = Live(storage)
            /\ storage'[call'.transaction_id] = storage[call'.transaction_id]
            /\ storage' = storage)]_vars

\* C1 witness: a Create was rejected for an identifier whose stored record is
\* another record than the one the Create submitted.
C1_Witness ==
    /\ call.op = "create"
    /\ IsRejection(response)
    /\ call.transaction_id \in Live(storage)
    /\ storage[call.transaction_id] # call.item

\* Concurrent requests that have made their storage call.
Started_(op, id) ==
    {r \in Requests : requests[r].pc # "idle" /\ requests[r].op = op
                      /\ requests[r].transaction_id = id}

Returned_(op, id) == {r \in Started_(op, id) : requests[r].pc = "returned"}

\* C2: among concurrent Creates that supply the same identifier, with no
\* Update or Cancel of it under way, at most one insert wins the identifier
\* and only a winner is answered with Success{REGISTRATION_CREATED}; every
\* other Create is answered with a Rejection; the storage holds the record of
\* the winner, and there is a winner unless the identifier was in use before
\* (by an earlier record or by a Create that had it generated).
C2_OneConcurrentCreateWins ==
    \A id \in Ids :
        LET creators == Started_("create", id)
            winners == {r \in creators : requests[r].value # None}
            succeeded == {r \in Returned_("create", id) :
                            IsSuccess(requests[r].response, REGISTRATION_CREATED)}
        IN  (Started_("update", id) = {} /\ Started_("cancel", id) = {})
            => /\ Cardinality(winners) <= 1
               /\ Cardinality(succeeded) <= 1
               /\ succeeded \subseteq winners
               /\ \A r \in Returned_("create", id) \ succeeded :
                      IsRejection(requests[r].response)
               /\ \A r \in winners : id \in Live(storage) /\ storage[id] = requests[r].item
               /\ (creators # {} /\ winners = {})
                      => /\ id \in Live(storage)
                         /\ \/ storage[id] = PriorItem(id)
                            \/ \E g \in Started_("create", None) :
                                   /\ requests[g].value = id
                                   /\ storage[id] = requests[g].item

\* C2 witness: two Creates of the same free identifier have both returned,
\* one with Success and one with a Rejection.
C2_Witness ==
    \E r1, r2 \in Requests :
        /\ r1 # r2
        /\ requests[r1].pc = "returned" /\ requests[r2].pc = "returned"
        /\ requests[r1].op = "create" /\ requests[r2].op = "create"
        /\ requests[r1].transaction_id = requests[r2].transaction_id
        /\ requests[r1].transaction_id \in ConcIds
        /\ IsSuccess(requests[r1].response, REGISTRATION_CREATED)
        /\ IsRejection(requests[r2].response)
        /\ storage[requests[r1].transaction_id] = requests[r1].item

\* C3: a Status of the identifier a successful Create has just returned is
\* answered with an Acknowledgement carrying that identifier.
C3_StatusAfterCreate ==
    [][(/\ call.op = "create"
        /\ IsSuccess(response, REGISTRATION_CREATED)
        /\ call'.op = "status"
        /\ call'.transaction_id = response.TransactionId)
        => response' = RequestAcknowledgement(response.TransactionId)]_vars

\* C3 witness: a Create has just succeeded with a generated identifier and a
\* Status of that identifier is acknowledged.
C3_Witness ==
    /\ call.op = "create"
    /\ call.transaction_id = None
    /\ IsSuccess(response, REGISTRATION_CREATED)
    /\ voter_registration_status(storage, response.TransactionId).response
           = RequestAcknowledgement(response.TransactionId)

\* C4: a Status call leaves the storage as it was, whether it is answered
\* with an Acknowledgement or with a Rejection.
C4_StatusReadOnly ==
    [][call'.op = "status"
        => (/\ storage' = storage
            /\ response'.kind \in {"RequestAcknowledgement", "RequestRejection"})]_vars

\* C4 witness: a Status was acknowledged while another identifier is absent.
C4_Witness ==
    /\ call.op = "status"
    /\ response.kind = "RequestAcknowledgement"
    /\ call.transaction_id \in Live(storage)
    /\ Live(storage) # NamedIds

\* C5: an Update of an identifier that is not live is answered with a
\* Rejection and creates nothing: the storage is unchanged and a Status of
\* the identifier is then rejected too.
C5_UpdateNeverCreates ==
    [][(call'.op = "update" /\ call'.transaction_id \notin Live(storage))
        => (/\ IsRejection(response')
            /\ storage' = storage
            /\ IsRejection(voter_registration_status(
                               storage', call'.transaction_id).response))]_vars

\* C5 witness: an Update was rejected and its identifier is not live, while
\* the storage holds other records.
C5_Witness ==
    /\ call.op = "update"
    /\ IsRejection(response)
    /\ call.transaction_id \notin Live(storage)
    /\ Live(storage) # {}

\* C6: a successful Cancel leaves its identifier not live; an identifier that
\* is not live stays so until a Create is answered with
\* Success{REGISTRATION_CREATED} for it; while it is not live a Status of it
\* is rejected, and a Create that supplies it is answered with
\* Success{REGISTRATION_CREATED} carrying it and stores the record under it.
C6_CancelFreesIdentifier ==
    [][/\ (call'.op = "cancel" /\ IsSuccess(response', REGISTRATION_CANCELLED))
            => (/\ call'.transaction_id \in Live(storage)
                /\ call'.transaction_id \notin Live(storage'))
       /\ \A id \in NamedIds :
            (id \notin Live(storage) /\ id \in Live(storage'))
                => (call'.op = "create"
                    /\ response' = RequestSuccess(REGISTRATION_CREATED, id))
       /\ (call'.op = "status" /\ call'.transaction_id \notin Live(storage))
            => response' = RequestRejection(NOT_FOUND, IDENTITY_LOOKUP_FAILED,
                                            call'.transaction_id)
       /\ (call'.op = "create" /\ call'.transaction_id \in NamedIds \ Live(storage))
            => (/\ response' = RequestSuccess(REGISTRATION_CREATED,
                                              call'.transaction_id)
                /\ call'.transaction_id \in Live(storage')
                /\ storage'[call'.transaction_id] = call'.item)]_vars

\* C6 witness: a Cancel has just succeeded while another record is live; a
\* Status of the cancelled identifier is rejected and a Create supplying it
\* succeeds.
C6_Witness ==
    /\ call.op = "cancel"
    /\ IsSuccess(response, REGISTRATION_CANCELLED)
    /\ Live(storage) # {}
    /\ IsRejection(voter_registration_status(storage, call.transaction_id).response)
    /\ \E item \in Items :
        /\ item.transaction_id = call.transaction_id
        /\ voter_registration_request(storage, item, None).response
               = RequestSuccess(REGISTRATION_CREATED, call.transaction_id)

\* C7: in every reachable storage, two Cancel calls in a row on a live
\* identifier are answered with Success{REGISTRATION_CANCELLED, id} and then
\* with a Rejection carrying the identifier; the second call leaves the
\* storage as the first left it.
C7_CancelTwice ==
    \A id \in NamedIds \cap Live(storage) :
        LET first == voter_registration_cancel(storage, id)
            second == voter_registration_cancel(first.storage, id)
        IN  /\ first.response = RequestSuccess(REGISTRATION_CANCELLED, id)
            /\ second.response = RequestRejection(NOT_FOUND, IDENTITY_LOOKUP_FAILED, id)
            /\ second.storage = first.storage
            /\ id \notin Live(second.storage)

\* C7 witness: a Cancel has just succeeded while another record is live, and
\* cancelling the same identifier again is rejected without a change of the
\* storage.
C7_Witness ==
    /\ call.op = "cancel"
    /\ IsSuccess(response, REGISTRATION_CANCELLED)
    /\ Live(storage) # {}
    /\ IsRejection(voter_registration_cancel(storage, call.transaction_id).response)
    /\ voter_registration_cancel(storage, call.transaction_id).storage = storage

\* C8: a Create rejected because its identifier is in use carries no
\* identifier (null) and the error IDENTITY_LOOKUP_FAILED.
C8_ConflictCarriesNoId ==
    [][(call'.op = "create" /\ call'.transaction_id \in Live(storage))
        => (/\ IsRejection(response')
            /\ response'.TransactionId = None
            /\ response'.TransactionId # call'.transaction_id
            /\ response'.Error = <<IDENTITY_LOOKUP_FAILED>>)]_vars

\* C8 witness: a Create that supplied a non-empty live identifier was
\* rejected with a null identifier.
C8_Witness ==
    /\ call.op = "create"
    /\ call.transaction_id \in NamedIds
    /\ IsRejection(response)
    /\ response.TransactionId = None

\* C9: Status, Update and Cancel of an identifier that is not live are
\* answered with a Rejection that carries the identifier supplied and the
\* error IDENTITY_LOOKUP_FAILED, the error a Create conflict carries too.
C9_AbsenceEchoesId ==
    [][/\ (call'.op \in {"status", "update", "cancel"}
           /\ call'.transaction_id \notin Live(storage))
            => (/\ IsRejection(response')
                /\ response'.TransactionId = call'.transaction_id
                /\ response'.Error = <<IDENTITY_LOOKUP_FAILED>>)
       /\ (call'.op = "create" /\ call'.transaction_id \in Live(storage))
            => response'.Error = <<IDENTITY_LOOKUP_FAILED>>]_vars

\* C9 witness: an Update of an identifier that is not live was rejected with
\* that identifier, and a Status and a Cancel of it are rejected with it too.
C9_Witness ==
    /\ call.op = "update"
    /\ IsRejection(response)
    /\ response.TransactionId = call.transaction_id
    /\ voter_registration_status(storage, call.transaction_id).response
           = RequestRejection(NOT_FOUND, IDENTITY_LOOKUP_FAILED, call.transaction_id)
    /\ voter_registration_cancel(storage, call.transaction_id).response
           = RequestRejection(NOT_FOUND, IDENTITY_LOOKUP_FAILED, call.transaction_id)

\* C10: a Create that supplies no identifier is answered with
\* Success{REGISTRATION_CREATED, id}, where id was not live before the call
\* and holds the submitted record after it.
C10_GeneratedIdFresh ==
    [][(call'.op = "create" /\ call'.transaction_id = None)
        => (/\ IsSuccess(response', REGISTRATION_CREATED)
            /\ response'.TransactionId \notin Live(storage)
            /\ response'.TransactionId \in Live(storage')
            /\ storage'[response'.TransactionId] = call'.item)]_vars

\* C10 witness: a Create without an identifier succeeded while other records
\* were live.
C10_Witness ==
    /\ call.op = "create"
    /\ call.transaction_id = None
    /\ IsSuccess(response, REGISTRATION_CREATED)
    /\ Cardinality(Live(storage)) >= 2

\* C11: a Success or an Acknowledgement carries the identifier the operation
\* acted on: for a Create the identifier supplied, or else the generated
\* identifier under which the storage now holds the submitted record; for
\* Status, Update and Cancel the identifier of the call.
C11_ResultCarriesActedId ==
    response.kind \in {"RequestSuccess", "RequestAcknowledgement"}
        => /\ call.op = "create"
                => /\ response.TransactionId \in Live(storage)
                   /\ storage[response.TransactionId] = call.item
                   /\ call.transaction_id # None
                        => response.TransactionId = call.transaction_id
           /\ call.op \in {"status", "update", "cancel"}
                => response.TransactionId = call.transaction_id

\* C11 witness: a Create without an identifier succeeded with a generated
\* identifier while another record is live.
C11_Witness ==
    /\ call.op = "create"
    /\ call.transaction_id = None
    /\ response.kind = "RequestSuccess"
    /\ response.TransactionId \in NamedIds
    /\ Live(storage) # {response.TransactionId}

\* Identifiers whose liveness or record differs between storages s and t.
Changed(s, t) ==
    {y \in Live(s) \cup Live(t) :
        \/ y \notin Live(s)
        \/ y \notin Live(t)
        \/ s[y] # t[y]}

\* C12: in every reachable storage an Update of a live identifier, with any
\* record (also one whose TransactionId names another identifier), is
\* answered with Success{REGISTRATION_UPDATED, id}, stores the record under
\* id, leaves the set of live identifiers unchanged and touches no other
\* identifier.
C12_UpdateReplacesInPlace ==
    \A id \in NamedIds \cap Live(storage), item \in Items :
        LET out == voter_registration_update(storage, id, item)
        IN  /\ out.response = RequestSuccess(REGISTRATION_UPDATED, id)
            /\ Live(out.storage) = Live(storage)
            /\ out.storage[id] = item
            /\ Changed(storage, out.storage) \subseteq {id}

\* C12 witness: an Update succeeded with a record whose TransactionId names
\* another identifier, which is not live.
C12_Witness ==
    /\ call.op = "update"
    /\ IsSuccess(response, REGISTRATION_UPDATED)
    /\ call.item.transaction_id \in NamedIds \ {call.transaction_id}
    /\ call.item.transaction_id \notin Live(storage)
    /\ storage[call.transaction_id] = call.item

\* C13: the status code is determined by the operation and its result:
\* Create gives 201 with a Success and 400 with a Rejection; Status, Update
\* and Cancel give 200 with a Success or an Acknowledgement and 404 with a
\* Rejection.
C13_StatusCodeOfResult ==
    call.op # "none"
        => status_code =
            (IF call.op = "create"
             THEN IF response.kind = "RequestSuccess"
                  THEN HTTP_201_CREATED ELSE HTTP_400_BAD_REQUEST
             ELSE IF response.kind \in {"RequestSuccess", "RequestAcknowledgement"}
                  THEN HTTP_200_OK ELSE HTTP_404_NOT_FOUND)

\* C13 witness: a Cancel of an identifier that is not live was answered with
\* 404.
C13_Witness ==
    /\ call.op = "cancel"
    /\ IsRejection(response)
    /\ status_code = HTTP_404_NOT_FOUND

\* C14: from the empty storage, Create(no id, R1) generating X, Create(X, R2),
\* Update(X, R3), Status(X), Cancel(X), Status(X) are answered in order with
\* Success{REGISTRATION_CREATED, X}, Rejection{IDENTITY_LOOKUP_FAILED, null},
\* Success{REGISTRATION_UPDATED, X}, Acknowledgement{X},
\* Success{REGISTRATION_CANCELLED, X}, Rejection{IDENTITY_LOOKUP_FAILED, X},
\* for all records R1, R2, R3 and every identifier X the generator can yield.
C14_Scenario ==
    storage = EmptyStorage
        => \A X \in FreshIds(storage), R1, R, R3 \in Items :
            R1.transaction_id = None
            => LET R2 == [R EXCEPT !.transaction_id = X]
                   c1 == voter_registration_request(storage, R1, X)
                   c2 == voter_registration_request(c1.storage, R2, None)
                   c3 == voter_registration_update(c2.storage, X, R3)
                   c4 == voter_registration_status(c3.storage, X)
                   c5 == voter_registration_cancel(c4.storage, X)
                   c6 == voter_registration_status(c5.storage, X)
               IN  /\ c1.response = RequestSuccess(REGISTRATION_CREATED, X)
                   /\ c2.response = RequestRejection(ALREADY_EXISTS,
                                                     IDENTITY_LOOKUP_FAILED, None)
                   /\ c3.response = RequestSuccess(REGISTRATION_UPDATED, X)
                   /\ c4.response = RequestAcknowledgement(X)
                   /\ c5.response = RequestSuccess(REGISTRATION_CANCELLED, X)
                   /\ c6.response = RequestRejection(NOT_FOUND,
                                                     IDENTITY_LOOKUP_FAILED, X)
                   /\ c6.storage = EmptyStorage

\* C14 witness: the state the scenario ends in: the storage is empty again
\* and the last Status was rejected with the identifier.
C14_Witness ==
    /\ storage = EmptyStorage
    /\ call.op = "status"
    /\ response = RequestRejection(NOT_FOUND, IDENTITY_LOOKUP_FAILED,
                                   call.transaction_id)

\* A well-formed result of each shape.
WellFormed(resp) ==
    \/ /\ resp.kind = "RequestSuccess"
       /\ resp.Action \in {<<REGISTRATION_CREATED>>, <<REGISTRATION_UPDATED>>,
                           <<REGISTRATION_CANCELLED>>}
       /\ resp.Error = <<>>
    \/ /\ resp.kind = "RequestRejection"
       /\ resp.Error = <<IDENTITY_LOOKUP_FAILED>>
       /\ resp.AdditionalDetails \in {<<ALREADY_EXISTS>>, <<NOT_FOUND>>}
       /\ resp.Action = <<>>
    \/ /\ resp.kind = "RequestAcknowledgement"
       /\ resp.Action = <<>>
       /\ resp.Error = <<>>

ResultKinds(op) ==
    IF op = "status"
    THEN {"RequestAcknowledgement", "RequestRejection"}
    ELSE {"RequestSuccess", "RequestRejection"}

\* C15: in every reachable storage and for every input, each of the four
\* operations yields a well-formed result that is a Success or a Rejection,
\* or for Status an Acknowledgement or a Rejection; the result of the last
\* request served is of that kind too.
C15_OperationsTotal ==
    /\ \A item \in Items : \A fresh \in FreshChoices(storage, item) :
        LET out == voter_registration_request(storage, item, fresh)
        IN  WellFormed(out.response) /\ out.response.kind \in ResultKinds("create")
    /\ \A id \in NamedIds :
        LET out == voter_registration_status(storage, id)
        IN  WellFormed(out.response) /\ out.response.kind \in ResultKinds("status")
    /\ \A id \in NamedIds, item \in Items :
        LET out == voter_registration_update(storage, id, item)
        IN  WellFormed(out.response) /\ out.response.kind \in ResultKinds("update")
    /\ \A id \in NamedIds :
        LET out == voter_registration_cancel(storage, id)
        IN  WellFormed(out.response) /\ out.response.kind \in ResultKinds("cancel")
    /\ call.op # "none"
        => (WellFormed(response) /\ response.kind \in ResultKinds(call.op))

\* C15 witness: a Status of an identifier that is not live was answered with
\* a Rejection while other records are live.
C15_Witness ==
    /\ call.op = "status"
    /\ IsRejection(response)
    /\ Live(storage) # {}

\* C16: in every reachable storage and for every input, Create makes exactly
\* the storage call insert, Status lookup, Update update and Cancel remove,
\* once, whether the call is answered with a success or with a Rejection.
C16_OneStoreCall ==
    /\ \A item \in Items : \A fresh \in FreshChoices(storage, item) :
        voter_registration_request(storage, item, fresh).calls = <<"insert">>
    /\ \A id \in NamedIds :
        /\ voter_registration_status(storage, id).calls = <<"lookup">>
        /\ voter_registration_cancel(storage, id).calls = <<"remove">>
        /\ \A item \in Items :
            voter_registration_update(storage, id, item).calls = <<"update">>

\* C16 witness: a Create was rejected for a live identifier; repeating it
\* makes the one storage call insert.
C16_Witness ==
    /\ call.op = "create"
    /\ IsRejection(response)
    /\ call.transaction_id \in Live(storage)
    /\ voter_registration_request(storage, call.item, None).calls = <<"insert">>

\* C17: the result of a Create agrees with the storage for every identifier
\* supplied, the empty string included: a Create answered with a Rejection
\* leaves the storage unchanged, and a Create that changed the storage is
\* answered with Success{REGISTRATION_CREATED} carrying the identifier the
\* record is stored under.
C17_CreateResultMatchesStore ==
    [][call'.op = "create"
        => (/\ IsRejection(response') => storage' = storage
            /\ storage' # storage
                => (/\ IsSuccess(response', REGISTRATION_CREATED)
                    /\ response'.TransactionId \in Live(storage')
                    /\ storage'[response'.TransactionId] = call'.item))]_vars

\* C18: in every reachable storage, a Create, an Update or a Cancel acting on
\* identifier X (for a Create without identifier, the generated one) changes
\* neither the record nor the liveness of any other identifier.
C18_OtherIdsUntouched ==
    /\ \A item \in Items : \A fresh \in FreshChoices(storage, item) :
        LET X == IF item.transaction_id = None THEN fresh ELSE item.transaction_id
        IN  Changed(storage, voter_registration_request(storage, item, fresh).storage)
                \subseteq {X}
    /\ \A X \in NamedIds :
        /\ Changed(storage, voter_registration_cancel(storage, X).storage)
                \subseteq {X}
        /\ \A item \in Items :
            Changed(storage, voter_registration_update(storage, X, item).storage)
                \subseteq {X}

\* C18 witness: a Cancel succeeded and the record of another identifier is
\* still live.
C18_Witness ==
    /\ call.op = "cancel"
    /\ IsSuccess(response, REGISTRATION_CANCELLED)
    /\ \E Y \in Live(storage) : Y # call.transaction_id

\* C19: an identifier becomes live only by a Create answered with Success for
\* it and stops being live only by a Cancel answered with Success for it, and
\* those two do make it live and not live; a Status, an Update and any call
\* answered with a Rejection leave the set of live identifiers unchanged.
C19_LiveFollowsResults ==
    [][/\ \A id \in Ids :
            /\ (id \notin Live(storage) /\ id \in Live(storage'))
                => (/\ call'.op = "create"
                    /\ response' = RequestSuccess(REGISTRATION_CREATED, id))
            /\ (id \in Live(storage) /\ id \notin Live(storage'))
                => (/\ call'.op = "cancel"
                    /\ response' = RequestSuccess(REGISTRATION_CANCELLED, id))
       /\ (call'.op = "create" /\ IsSuccess(response', REGISTRATION_CREATED))
            => response'.TransactionId \in Live(storage')
       /\ (call'.op = "cancel" /\ IsSuccess(response', REGISTRATION_CANCELLED))
            => response'.TransactionId \notin Live(storage')
       /\ (call'.op \in {"status", "update"} \/ IsRejection(response'))
            => Live(storage') = Live(storage)]_vars

\* Concurrent Creates that supplied id or had it generated.
CreatesOf(id) ==
    Started_("create", id)
        \cup {g \in Started_("create", None) : requests[g].value = id}

\* Concurrent Cancels of id whose remove found the record.
CancelWinners(id) == {r \in Started_("cancel", id) : requests[r].value # None}

\* C20: for an identifier no concurrent Create touches: a Cancel whose
\* storage call finds the identifier live removes it, at most one concurrent
\* Cancel does so and it is answered with Success{REGISTRATION_CANCELLED, id},
\* every other Cancel with a Rejection carrying the identifier; and once a
\* Cancel has made its storage call the identifier is not live, whatever the
\* order a concurrent Update takes effect in.
C20_ConcurrentCancel ==
    [][\A id \in ConcIds :
        (CreatesOf(id))' = {}
        => /\ Cardinality((CancelWinners(id))') <= 1
           /\ \A r \in (Returned_("cancel", id))' :
                requests'[r].response =
                    IF r \in (CancelWinners(id))'
                    THEN RequestSuccess(REGISTRATION_CANCELLED, id)
                    ELSE RequestRejection(NOT_FOUND, IDENTITY_LOOKUP_FAILED, id)
           /\ ((Started_("cancel", id))' # Started_("cancel", id)
               /\ id \in Live(storage))
                => (CancelWinners(id))' # CancelWinners(id)
           /\ (Started_("cancel", id))' # {} => id \notin Live(storage')]_vars

\* C20 witness: two concurrent Cancels of one identifier have returned, the
\* one answered with Success and the other with a Rejection carrying the
\* identifier, and the identifier is not live.
C20_Witness ==
    \E r1, r2 \in Requests :
        /\ r1 # r2
        /\ requests[r1].op = "cancel" /\ requests[r2].op = "cancel"
        /\ requests[r1].transaction_id = requests[r2].transaction_id
        /\ requests[r1].pc = "returned" /\ requests[r2].pc = "returned"
        /\ requests[r1].response
               = RequestSuccess(REGISTRATION_CANCELLED, requests[r1].transaction_id)
        /\ requests[r2].response
               = RequestRejection(NOT_FOUND, IDENTITY_LOOKUP_FAILED,
                                  requests[r1].transaction_id)
        /\ requests[r1].transaction_id \notin Live(storage)

====
